---- MODULE Spec2Model ----
(***************************************************************************)
(* Hybrid missing-value imputation of the LCA service.                     *)
(*                                                                         *)
(*   src/AI_model/missing_value_model.py   fill_missing_values             *)
(*   src/AI_model/main.py                  get_default_imputation_values,  *)
(*                                         run_hybrid_imputation           *)
(*                                                                         *)
(* A table is a sequence of rows, a row a function from field name to a    *)
(* cell.  Numbers are fixed-point integers in units of 10^-6, so that the  *)
(* products with the per-unit factors (0.35, 0.005, ...) and the medians   *)
(* of two values are exact.                                                *)
(***************************************************************************)
EXTENDS Integers, Sequences, FiniteSets, TLC

VARIABLES
    caller,     \* "hybrid": run_hybrid_imputation; "direct": fill_missing_values called on its own
    cow,        \* pandas build: TRUE when df[col].fillna(.., inplace=True) acts on a copy (Copy-on-Write)
    header,     \* the column labels of the table the caller passed, by lower-cased name
    labels,     \* df.columns: the column labels of the working table, by lower-cased name
    columns,    \* the field names of the frame
    input,      \* the table the caller passed
    custom,     \* the caller's CustomDefaults (or None)
    defaults,   \* the resolved defaults
    df,         \* the working table
    ai_mask,    \* the mask of fill_missing_values
    todo,       \* the targets the loop of fill_missing_values has still to visit
    fitted,     \* the (target, feature_cols) of every model.fit call
    pc,         \* position in the call
    run,        \* the number of the call: 1, then 2 when the output is passed in again
    forest      \* model.predict on one gap row: the trees' predictions, the workers, the sum so far

vars == <<caller, cow, header, labels, columns, input, custom, defaults, df, ai_mask, todo, fitted, pc, run, forest>>

(***************************************************************************)
(* Bounds                                                                  *)
(***************************************************************************)
MaxRows == 6

\* the trees whose additions model.predict interleaves in SpecForest (the forest has
\* N_ESTIMATORS of them)
Estimators == 3

\* the threads of model.predict: n_jobs=-1 is one per processor
MaxWorkers == 2

\* the bits of the significand of the model's floating-point numbers (a double has 53)
SignificandBits == 3

(***************************************************************************)
(* Cells                                                                   *)
(***************************************************************************)
U == 1000 * 1000

NaN == [nan |-> TRUE]
Num(v) == [num |-> v]
Str(s) == [str |-> s]

IsNum(c) == DOMAIN c = {"num"}
IsStr(c) == DOMAIN c = {"str"}

isnull(c) == c = NaN
notnull(c) == c # NaN

\* value times a factor given in thousandths
Times(v, milli) == (v \div 1000) * milli

(***************************************************************************)
(* The frame                                                               *)
(***************************************************************************)
\* the column names the code knows, in the order a frame holds them: the fields of
\* LCASingleRowData, then functional_unit_kg
Cols == <<"weight_kg", "recycled_content", "energy_extraction", "energy_manufacturing",
          "transport_km", "transport_mode", "recycling_yield", "co2_extraction",
          "co2_manufacturing", "material_cost", "transport_cost", "eol_method",
          "functional_unit_kg">>

Fields == {Cols[k] : k \in 1..Len(Cols)}

\* the columns of the frame the endpoints build: pd.DataFrame([row.dict() ...])
EndpointFields == Fields \ {"functional_unit_kg"}

\* the columns of a frame a caller of the two functions passes in
CallerFields == {"weight_kg", "energy_manufacturing", "transport_km", "transport_mode",
                 "co2_manufacturing", "transport_cost", "functional_unit_kg"}

TextFields == {"transport_mode", "eol_method"}

Rows(t) == 1..Len(t)

\* the labels with an upper-case letter, and what str.lower() makes of them
Lowered == [l \in {"Weight_KG"} |-> "weight_kg"]

\* variant: the label is left as it is
lower_asis(l) == l

lower(l) == IF l \in DOMAIN Lowered THEN Lowered[l] ELSE l

HasNull(t, col) == \E r \in Rows(t) : isnull(t[r][col])

Observed(t, col) == {r \in Rows(t) : notnull(t[r][col])}

\* the strings pd.to_numeric reads as numbers
NumericLiterals == [s \in {"10"} |-> 10 * U]

to_numeric(c) ==
    IF IsStr(c)
      THEN IF c.str \in DOMAIN NumericLiterals THEN Num(NumericLiterals[c.str]) ELSE NaN
      ELSE c

\* dtype object: a text column, or a column holding a string
IsObject(t, col) == col \in TextFields \/ \E r \in Rows(t) : IsStr(t[r][col])

SeqWithout(s, x) ==
    LET Keep(e) == e # x IN SelectSeq(s, Keep)

select_number(t) ==
    LET Keep(col) == col \in columns /\ ~IsObject(t, col) IN SelectSeq(Cols, Keep)

select_object(t) ==
    LET Keep(col) == col \in columns /\ IsObject(t, col) IN SelectSeq(Cols, Keep)

\* lines 25-26: the column labelled functional_unit_kg is taken out
numeric_cols(t) ==
    LET Keep(col) == labels[col] # "functional_unit_kg" IN SelectSeq(select_number(t), Keep)

categorical_cols(t) == select_object(t)

feature_cols(t, target) == SeqWithout(numeric_cols(t) \o categorical_cols(t), target)

SeqSet(s) == {s[k] : k \in 1..Len(s)}

(***************************************************************************)
(* Series statistics                                                       *)
(***************************************************************************)
\* the k-th smallest of the observed numbers of a column
KthSmallest(t, col, k) ==
    LET obs == Observed(t, col)
        Below(v) == Cardinality({r \in obs : t[r][col].num < v})
        UpTo(v) == Cardinality({r \in obs : t[r][col].num <= v})
    IN  CHOOSE v \in {t[r][col].num : r \in obs} : Below(v) < k /\ UpTo(v) >= k

median(t, col) ==
    LET n == Cardinality(Observed(t, col))
    IN  IF n = 0 THEN NaN
        ELSE IF n % 2 = 1 THEN Num(KthSmallest(t, col, (n + 1) \div 2))
        ELSE Num((KthSmallest(t, col, n \div 2) + KthSmallest(t, col, n \div 2 + 1)) \div 2)

RECURSIVE SumOver(_, _, _)
SumOver(t, col, rows) ==
    IF rows = {} THEN 0
    ELSE LET r == CHOOSE x \in rows : TRUE
         IN  t[r][col].num + SumOver(t, col, rows \ {r})

mean(t, col) ==
    LET obs == Observed(t, col)
    IN  IF obs = {} THEN NaN ELSE Num(SumOver(t, col, obs) \div Cardinality(obs))

\* the observed strings in sorted order, as Series.mode() lists ties
SortedText == <<"landfill", "rail", "recycle", "road", "unknown">>

Count(t, col, s) == Cardinality({r \in Rows(t) : t[r][col] = Str(s)})

\* Series.mode(): the most frequent observed values, sorted; <<>> when none
mode(t, col) ==
    LET best(s) == Count(t, col, s) > 0 /\ \A o \in SeqSet(SortedText) : Count(t, col, o) <= Count(t, col, s)
    IN  SelectSeq(SortedText, best)

\* variant: the value is assigned to the whole column
fillna_overwrite(t, col, value) ==
    [r \in Rows(t) |-> [t[r] EXCEPT ![col] = value]]

\* Series.fillna / df.loc[mask, col] = value: writes the null cells of one column
fillna(t, col, value) ==
    [r \in Rows(t) |-> IF isnull(t[r][col]) THEN [t[r] EXCEPT ![col] = value] ELSE t[r]]

AllFalse(t) == [r \in Rows(t) |-> [col \in columns |-> FALSE]]

\* variant: the whole column is marked
MarkNull_all(m, t, col) ==
    [r \in Rows(t) |-> [m[r] EXCEPT ![col] = TRUE]]

MarkNull(m, t, col) ==
    [r \in Rows(t) |-> IF isnull(t[r][col]) THEN [m[r] EXCEPT ![col] = TRUE] ELSE m[r]]

(***************************************************************************)
(* main.py: get_default_imputation_values                                  *)
(***************************************************************************)
None == [none |-> TRUE]

Params == {"co2_per_kwh_extraction", "co2_per_kwh_manufacturing", "recycling_yield_default",
           "transport_cost_per_km_default", "avg_energy_extraction_mj"}

\* the system defaults, in thousandths; a caller's value is None or Num(thousandths)
SystemDefaults ==
    [co2_kwh_ext |-> 500, co2_kwh_man |-> 350, rec_yield |-> 90000,
     avg_energy_ext |-> 200000, transport_cost_km |-> 5]

\* variant: the value is tested for truth, so 0.0 counts as not given
Given_truthy(cd, p) == cd # None /\ cd[p] # None /\ cd[p].num # 0

\* "if custom_defaults:" and "is not None"
Given(cd, p) == cd # None /\ cd[p] # None

Value(cd, p) == cd[p].num

get_default_imputation_values(cd) ==
    [co2_kwh_ext |->
        IF Given(cd, "co2_per_kwh_extraction") THEN Value(cd, "co2_per_kwh_extraction")
        ELSE SystemDefaults.co2_kwh_ext,
     co2_kwh_man |->
        IF Given(cd, "co2_per_kwh_manufacturing") THEN Value(cd, "co2_per_kwh_manufacturing")
        ELSE SystemDefaults.co2_kwh_man,
     rec_yield |->
        IF Given(cd, "recycling_yield_default") THEN Value(cd, "recycling_yield_default")
        ELSE SystemDefaults.rec_yield,
     avg_energy_ext |->
        IF Given(cd, "avg_energy_extraction_mj") THEN Value(cd, "avg_energy_extraction_mj")
        ELSE SystemDefaults.avg_energy_ext,
     transport_cost_km |->
        IF Given(cd, "transport_cost_per_km_default") THEN Value(cd, "transport_cost_per_km_default")
        ELSE SystemDefaults.transport_cost_km]

(***************************************************************************)
(* Inputs                                                                  *)
(***************************************************************************)
\* a row of a frame a caller of the two functions passes in
Row(w, e, km, tm, co2, cost, fu) ==
    [weight_kg |-> w, energy_manufacturing |-> e, transport_km |-> km, transport_mode |-> tm,
     co2_manufacturing |-> co2, transport_cost |-> cost, functional_unit_kg |-> fu]

\* the rows a caller's table is made of: two complete rows, a row with the
\* derivable fields absent, a row with the energy, the mode, the emissions and the
\* functional unit absent, a row with strings in numeric fields
Templates ==
    << Row(Num(10 * U), Num(50 * U), Num(100 * U), Str("road"), Num(20 * U), Num(1 * U), Num(1 * U)),
       Row(Num(20 * U), Num(50 * U), Num(200 * U), Str("rail"), Num(20 * U), Num(1 * U), Num(1 * U)),
       Row(Num(30 * U), Num(50 * U), Num(100 * U), Str("road"), NaN, NaN, Num(1 * U)),
       Row(Num(40 * U), NaN, Num(300 * U), NaN, NaN, Num(1 * U), NaN),
       Row(Str("10"), Num(50 * U), Num(100 * U), Str("rail"), Num(20 * U), Num(1 * U), Str("n/a")) >>

\* row.dict() of a LCASingleRowData: every field, None where the request gave none
EndpointRow(w, rc, ee, em, km, tm, ry, ce, cm, mc, tc, eol) ==
    [weight_kg |-> w, recycled_content |-> rc, energy_extraction |-> ee,
     energy_manufacturing |-> em, transport_km |-> km, transport_mode |-> tm,
     recycling_yield |-> ry, co2_extraction |-> ce, co2_manufacturing |-> cm,
     material_cost |-> mc, transport_cost |-> tc, eol_method |-> eol]

\* the rows a request is made of: two rows that give neither recycled_content nor
\* co2_extraction, and a row that gives only the weight, the extraction and
\* manufacturing energy, the distance, the mode and the material cost
EndpointTemplates ==
    << EndpointRow(Num(10 * U), NaN, Num(100 * U), Num(50 * U), Num(100 * U), Str("road"),
                   Num(90 * U), NaN, Num(20 * U), Num(5 * U), Num(1 * U), Str("recycle")),
       EndpointRow(Num(20 * U), NaN, Num(200 * U), Num(60 * U), Num(200 * U), Str("rail"),
                   Num(90 * U), NaN, Num(30 * U), Num(10 * U), Num(1 * U), Str("landfill")),
       EndpointRow(Num(30 * U), NaN, Num(300 * U), Num(50 * U), Num(100 * U), Str("road"),
                   NaN, NaN, NaN, Num(15 * U), NaN, NaN) >>

RECURSIVE Repeat(_, _)
Repeat(x, n) == IF n = 0 THEN <<>> ELSE <<x>> \o Repeat(x, n - 1)

RECURSIVE Total(_, _)
Total(cnt, k) == IF k = 0 THEN 0 ELSE cnt[k] + Total(cnt, k - 1)

RECURSIVE Table(_, _, _)
Table(templates, cnt, k) ==
    IF k = 0 THEN <<>> ELSE Table(templates, cnt, k - 1) \o Repeat(templates[k], cnt[k])

TablesOf(templates) ==
    {Table(templates, cnt, Len(templates)) :
        cnt \in {c \in [1..Len(templates) -> 0..MaxRows] : Total(c, Len(templates)) <= MaxRows}}

\* the tables a caller of the two functions passes in
Tables == TablesOf(Templates)

\* the tables the endpoints build from a request
EndpointTables == TablesOf(EndpointTemplates)

\* the requests that leave the manufacturing emissions to the rule and its factor
RuleTables == {t \in EndpointTables : Observed(t, "co2_manufacturing") = {}}

\* the columns of a table: an empty request gives a frame without columns
ColumnsOf(t) == IF t = <<>> THEN {{}, CallerFields} ELSE {DOMAIN t[1]}

NoCustom ==
    [co2_per_kwh_extraction |-> None, co2_per_kwh_manufacturing |-> None,
     recycling_yield_default |-> None, transport_cost_per_km_default |-> None,
     avg_energy_extraction_mj |-> None]

CustomChoices ==
    {None, [NoCustom EXCEPT !["co2_per_kwh_manufacturing"] = Num(400),
                            !["transport_cost_per_km_default"] = Num(10)]}

\* lower-case labels: the names the code looks columns up by
LowerCase(cols) == [col \in cols |-> col]

\* the labels of a table whose weight column is spelled with capitals
MixedCase(cols) == [col \in cols |-> IF col = "weight_kg" THEN "Weight_KG" ELSE col]

\* no prediction under way
Idle == [trees |-> <<>>, n_jobs |-> 0, pending |-> {}, y_hat |-> 0]

(***************************************************************************)
(* Initial states: an endpoint holding the table of a request, or a caller *)
(* of one of the two functions holding a table of its own                  *)
(***************************************************************************)
Init ==
    /\ caller \in {"hybrid", "direct"}
    /\ cow \in (IF caller = "hybrid" THEN BOOLEAN ELSE {FALSE})
    /\ input \in (IF caller = "hybrid" THEN EndpointTables \cup Tables ELSE Tables)
    /\ columns \in ColumnsOf(input)
    /\ header = LowerCase(columns)
    /\ labels = header
    /\ custom \in (IF caller = "hybrid" /\ input \in RuleTables THEN CustomChoices ELSE {None})
    /\ defaults = None
    /\ df = input
    /\ ai_mask = <<>>
    /\ todo = <<>>
    /\ fitted = {}
    /\ pc = IF caller = "hybrid" THEN "resolve" ELSE "call"
    /\ run = 1
    /\ forest = Idle

(***************************************************************************)
(* main.py: the endpoint resolves the defaults, then run_hybrid_imputation *)
(***************************************************************************)
Resolve ==
    /\ pc = "resolve"
    /\ defaults' = get_default_imputation_values(custom)
    /\ pc' = "convert"
    /\ UNCHANGED <<forest, caller, cow, header, labels, columns, input, custom, df, ai_mask, todo, fitted, run>>

\* lines 102-110: copy, then pd.to_numeric(errors='coerce') on every column but the text ones
Coerce(t) ==
    [r \in Rows(t) |->
        [col \in columns |-> IF col \in TextFields THEN t[r][col] ELSE to_numeric(t[r][col])]]

\* line 105: df.columns = [col.lower() for col in df.columns]
standardize(l) == [col \in DOMAIN l |-> lower(l[col])]

Convert ==
    /\ pc = "convert"
    /\ labels' = standardize(labels)
    /\ df' = Coerce(input)
    /\ pc' = "call"
    /\ UNCHANGED <<forest, caller, cow, header, columns, input, custom, defaults, ai_mask, todo, fitted, run>>

(***************************************************************************)
(* missing_value_model.py: fill_missing_values                             *)
(***************************************************************************)
MinTrainRows == 5

\* lines 18-29
CallFill ==
    /\ pc = "call"
    /\ todo' = numeric_cols(df)
    /\ ai_mask' = AllFalse(df)
    /\ pc' = "ai"
    /\ UNCHANGED <<forest, caller, cow, header, labels, columns, input, custom, defaults, df, fitted, run>>

\* lines 46-50, 58-62, 109-112: the median of the column, when there is one
MedianFallback(t, m, target) ==
    LET median_val == median(t, target)
    IN  IF isnull(median_val) THEN <<t, m>>
        ELSE <<fillna(t, target, median_val), MarkNull(m, t, target)>>

\* OneHotEncoder.fit refuses a column holding strings and numbers
FitRaises(t, target) ==
    \E col \in SeqSet(categorical_cols(t)) \ {target} :
        \E r1, r2 \in Observed(t, target) : IsStr(t[r1][col]) /\ IsNum(t[r2][col])

\* line 10
N_ESTIMATORS == 200

\* the sums of n tree outputs, an output held as <<whole part, rest>>
RECURSIVE TreeSums(_, _)
TreeSums(outputs, n) ==
    IF n = 0 THEN {<<0, 0>>}
    ELSE IF n = 1 THEN outputs
    ELSE LET some == TreeSums(outputs, n \div 2)
             rest == TreeSums(outputs, n - (n \div 2))
         IN  {<<a[1] + b[1], a[2] + b[2]>> : a \in some, b \in rest}

\* the forest's prediction is the mean of the outputs of its N_ESTIMATORS trees.  A
\* tree is grown until its leaves are pure, on a bootstrap sample of the training
\* rows, so its output for a row is the target of a training row; which one depends
\* on the sample and the features the tree drew under random_state.  Each target is
\* split in its N_ESTIMATORS-th part and the rest, which keeps the sums small
Predictions(t, target) ==
    LET outputs == {<<t[r][target].num \div N_ESTIMATORS, t[r][target].num % N_ESTIMATORS>> :
                       r \in Observed(t, target)}
    IN  {s[1] + (s[2] \div N_ESTIMATORS) : s \in TreeSums(outputs, N_ESTIMATORS)}

\* model.predict is a function of the feature values of the row
SameFeatures(t, target, r1, r2) ==
    \A col \in SeqSet(feature_cols(t, target)) : t[r1][col] = t[r2][col]

\* the first of the gap rows that hold the feature values of row r
First(t, target, r) ==
    CHOOSE q \in Rows(t) \ Observed(t, target) :
        /\ SameFeatures(t, target, q, r)
        /\ \A p \in Rows(t) \ Observed(t, target) : SameFeatures(t, target, p, r) => q <= p

\* lines 33-35
SkipComplete ==
    /\ pc = "ai" /\ todo # <<>>
    /\ ~HasNull(df, Head(todo))
    /\ todo' = Tail(todo)
    /\ UNCHANGED <<forest, caller, cow, header, labels, columns, input, custom, defaults, df, ai_mask, fitted, pc, run>>

\* variant: a column with exactly MinTrainRows observed rows is not trained on either
TooFewRows_inclusive ==
    /\ pc = "ai" /\ todo # <<>>
    /\ LET target == Head(todo)
           out == MedianFallback(df, ai_mask, target)
       IN  /\ HasNull(df, target)
           /\ \/ Cardinality(Observed(df, target)) <= MinTrainRows
              \/ feature_cols(df, target) = <<>>
           /\ df' = out[1]
           /\ ai_mask' = out[2]
    /\ todo' = Tail(todo)
    /\ UNCHANGED <<forest, caller, cow, header, labels, columns, input, custom, defaults, fitted, pc, run>>

\* lines 44-63
TooFewRows ==
    /\ pc = "ai" /\ todo # <<>>
    /\ LET target == Head(todo)
           out == MedianFallback(df, ai_mask, target)
       IN  /\ HasNull(df, target)
           /\ \/ Cardinality(Observed(df, target)) < MinTrainRows
              \/ feature_cols(df, target) = <<>>
           /\ df' = out[1]
           /\ ai_mask' = out[2]
    /\ todo' = Tail(todo)
    /\ UNCHANGED <<forest, caller, cow, header, labels, columns, input, custom, defaults, fitted, pc, run>>

\* lines 65-104
Supervised ==
    /\ pc = "ai" /\ todo # <<>>
    /\ LET target == Head(todo)
           gaps == Rows(df) \ Observed(df, target)
       IN  /\ HasNull(df, target)
           /\ Cardinality(Observed(df, target)) >= MinTrainRows
           /\ feature_cols(df, target) # <<>>
           /\ ~FitRaises(df, target)
           /\ fitted' = fitted \cup {[target |-> target, features |-> SeqSet(feature_cols(df, target))]}
           /\ \E predictions \in [{First(df, target, r) : r \in gaps} -> Predictions(df, target)] :
                df' = [r \in Rows(df) |->
                        IF r \in gaps
                          THEN [df[r] EXCEPT ![target] = Num(predictions[First(df, target, r)])]
                          ELSE df[r]]
           /\ ai_mask' = MarkNull(ai_mask, df, target)
    /\ todo' = Tail(todo)
    /\ UNCHANGED <<forest, caller, cow, header, labels, columns, input, custom, defaults, pc, run>>

\* variant: the failed target is left as it is
TrainingFailed_skip ==
    /\ pc = "ai" /\ todo # <<>>
    /\ LET target == Head(todo)
       IN  /\ HasNull(df, target)
           /\ Cardinality(Observed(df, target)) >= MinTrainRows
           /\ feature_cols(df, target) # <<>>
           /\ FitRaises(df, target)
           /\ fitted' = fitted \cup {[target |-> target, features |-> SeqSet(feature_cols(df, target))]}
    /\ todo' = Tail(todo)
    /\ UNCHANGED <<forest, caller, cow, header, labels, columns, input, custom, defaults, df, ai_mask, pc, run>>

\* lines 94-95, 106-112
TrainingFailed ==
    /\ pc = "ai" /\ todo # <<>>
    /\ LET target == Head(todo)
           out == MedianFallback(df, ai_mask, target)
       IN  /\ HasNull(df, target)
           /\ Cardinality(Observed(df, target)) >= MinTrainRows
           /\ feature_cols(df, target) # <<>>
           /\ FitRaises(df, target)
           /\ fitted' = fitted \cup {[target |-> target, features |-> SeqSet(feature_cols(df, target))]}
           /\ df' = out[1]
           /\ ai_mask' = out[2]
    /\ todo' = Tail(todo)
    /\ UNCHANGED <<forest, caller, cow, header, labels, columns, input, custom, defaults, pc, run>>

\* line 114; main.py lines 116-117
ReturnFill ==
    /\ pc = "ai" /\ todo = <<>>
    /\ pc' = IF caller = "hybrid" THEN "energy" ELSE "done"
    /\ UNCHANGED <<forest, caller, cow, header, labels, columns, input, custom, defaults, df, ai_mask, todo, fitted, run>>

(***************************************************************************)
(* main.py: run_hybrid_imputation, steps 2 and 3                           *)
(***************************************************************************)
\* df[col].fillna(value, inplace=True): reaches the frame unless the build copies on write
fillna_inplace(t, col, value) == IF cow THEN t ELSE fillna(t, col, value)

\* df['energy_manufacturing'] on a frame without that column
RaiseKeyError ==
    /\ pc = "energy"
    /\ "energy_manufacturing" \notin columns
    /\ pc' = "error"
    /\ UNCHANGED <<forest, caller, cow, header, labels, columns, input, custom, defaults, df, ai_mask, todo, fitted, run>>

\* variant: the default is assigned to the whole column
EnergyDefault_always(t) ==
    [r \in Rows(t) |-> [t[r] EXCEPT !["energy_manufacturing"] = Num(defaults.avg_energy_ext * 50)]]

\* lines 125-126
EnergyDefault(t) ==
    IF HasNull(t, "energy_manufacturing")
      THEN fillna_inplace(t, "energy_manufacturing", Num(defaults.avg_energy_ext * 50))
      ELSE t

FallbackEnergy ==
    /\ pc = "energy"
    /\ "energy_manufacturing" \in columns
    /\ df' = EnergyDefault(df)
    /\ pc' = "co2"
    /\ UNCHANGED <<forest, caller, cow, header, labels, columns, input, custom, defaults, ai_mask, todo, fitted, run>>

\* variant: the product is assigned to the whole column
Derive_overwrite(t, target, source, milli) ==
    [r \in Rows(t) |->
        [t[r] EXCEPT ![target] =
            IF isnull(t[r][source]) THEN NaN ELSE Num(Times(t[r][source].num, milli))]]

\* df.loc[missing, target] = df.loc[missing, source] * factor
Derive(t, target, source, milli) ==
    [r \in Rows(t) |->
        IF isnull(t[r][target])
          THEN [t[r] EXCEPT ![target] =
                   IF isnull(t[r][source]) THEN NaN ELSE Num(Times(t[r][source].num, milli))]
          ELSE t[r]]

\* variant: the extraction factor is used
FallbackCo2_extraction ==
    /\ pc = "co2"
    /\ df' = Derive(df, "co2_manufacturing", "energy_manufacturing", defaults.co2_kwh_ext)
    /\ pc' = "cost"
    /\ UNCHANGED <<forest, caller, cow, header, labels, columns, input, custom, defaults, ai_mask, todo, fitted, run>>

\* lines 130-132
FallbackCo2 ==
    /\ pc = "co2"
    /\ df' = Derive(df, "co2_manufacturing", "energy_manufacturing", defaults.co2_kwh_man)
    /\ pc' = "cost"
    /\ UNCHANGED <<forest, caller, cow, header, labels, columns, input, custom, defaults, ai_mask, todo, fitted, run>>

\* lines 135-137
FallbackTransportCost ==
    /\ pc = "cost"
    /\ df' = Derive(df, "transport_cost", "transport_km", defaults.transport_cost_km)
    /\ pc' = "last_num"
    /\ UNCHANGED <<forest, caller, cow, header, labels, columns, input, custom, defaults, ai_mask, todo, fitted, run>>

\* line 146
MeanOrZero(t, col) == IF isnull(mean(t, col)) THEN Num(0) ELSE mean(t, col)

\* line 150
ModeOrUnknown(t, col) == IF mode(t, col) = <<>> THEN Str("unknown") ELSE Str(mode(t, col)[1])

\* lines 144-146
RECURSIVE FillNumeric(_, _)
FillNumeric(t, cols) ==
    IF cols = <<>> THEN t
    ELSE FillNumeric(IF HasNull(t, Head(cols))
                       THEN fillna_inplace(t, Head(cols), MeanOrZero(t, Head(cols)))
                       ELSE t,
                     Tail(cols))

\* lines 148-150
RECURSIVE FillCategorical(_, _)
FillCategorical(t, cols) ==
    IF cols = <<>> THEN t
    ELSE FillCategorical(IF HasNull(t, Head(cols))
                           THEN fillna_inplace(t, Head(cols), ModeOrUnknown(t, Head(cols)))
                           ELSE t,
                         Tail(cols))

\* lines 141, 144-146
LastResortNumeric ==
    /\ pc = "last_num"
    /\ df' = FillNumeric(df, select_number(df))
    /\ pc' = "last_cat"
    /\ UNCHANGED <<forest, caller, cow, header, labels, columns, input, custom, defaults, ai_mask, todo, fitted, run>>

\* lines 142, 148-152
LastResortCategorical ==
    /\ pc = "last_cat"
    /\ df' = FillCategorical(df, select_object(df))
    /\ pc' = "done"
    /\ UNCHANGED <<forest, caller, cow, header, labels, columns, input, custom, defaults, ai_mask, todo, fitted, run>>

(***************************************************************************)
(* The caller passes an output that differs from its input in again        *)
(***************************************************************************)
Again ==
    /\ pc = "done"
    /\ df # input
    /\ run' = run + 1
    /\ input' = df
    /\ fitted' = {}
    /\ header' = labels
    /\ pc' = IF caller = "hybrid" THEN "convert" ELSE "call"
    /\ UNCHANGED <<forest, caller, cow, labels, columns, custom, defaults, df, ai_mask, todo>>

Next ==
    \/ Resolve
    \/ Convert
    \/ CallFill
    \/ SkipComplete
    \/ TooFewRows
    \/ Supervised
    \/ TrainingFailed
    \/ ReturnFill
    \/ RaiseKeyError
    \/ FallbackEnergy
    \/ FallbackCo2
    \/ FallbackTransportCost
    \/ LastResortNumeric
    \/ LastResortCategorical
    \/ Again

Spec == Init /\ [][Next]_vars

(***************************************************************************)
(* Default resolution on its own: every partial parameter set              *)
(***************************************************************************)
AllCustoms == {None} \cup [Params -> {None, Num(0), Num(400)}]

InitDefaults ==
    /\ caller = "hybrid"
    /\ cow = FALSE
    /\ input = <<>>
    /\ columns = {}
    /\ header = LowerCase(columns)
    /\ labels = header
    /\ custom \in AllCustoms
    /\ defaults = None
    /\ df = input
    /\ ai_mask = <<>>
    /\ todo = <<>>
    /\ fitted = {}
    /\ pc = "resolve"
    /\ run = 1
    /\ forest = Idle

SpecDefaults == InitDefaults /\ [][Resolve]_vars

(***************************************************************************)
(* Tables whose labels are not all lower-case                              *)
(***************************************************************************)
InitLabels ==
    /\ caller \in {"hybrid", "direct"}
    /\ cow = FALSE
    /\ input \in Tables
    /\ columns \in ColumnsOf(input)
    /\ header \in {LowerCase(columns), MixedCase(columns)}
    /\ labels = header
    /\ custom = None
    /\ defaults = None
    /\ df = input
    /\ ai_mask = <<>>
    /\ todo = <<>>
    /\ fitted = {}
    /\ pc = IF caller = "hybrid" THEN "resolve" ELSE "call"
    /\ run = 1
    /\ forest = Idle

SpecLabels == InitLabels /\ [][Next]_vars

(***************************************************************************)
(* missing_value_model.py line 100: model.predict for one gap row.         *)
(* RandomForestRegressor(n_jobs=-1).predict hands the trees to n_jobs      *)
(* threads in order; each thread computes its tree's prediction and adds   *)
(* it to the shared y_hat under a lock, in the order the threads reach the *)
(* lock; y_hat is then divided by the number of trees.  The fit is a       *)
(* function of the training rows and random_state=42, so the trees'        *)
(* predictions are inputs here.                                            *)
(***************************************************************************)
RECURSIVE Pow2(_)
Pow2(n) == IF n = 0 THEN 1 ELSE 2 * Pow2(n - 1)

\* the spacing of the floating-point numbers around the quotient x / n
UlpOf(x, n) ==
    LET e == CHOOSE k \in 0..(SignificandBits + Estimators) :
                 /\ x < n * Pow2(SignificandBits + k)
                 /\ k > 0 => x >= n * Pow2(SignificandBits + k - 1)
    IN  Pow2(e)

\* the floating-point quotient x / n: round to nearest, ties to even
fdiv(x, n) ==
    LET q == UlpOf(x, n)
        low == (x \div (n * q)) * q
        rest == x - low * n
    IN  IF 2 * rest > q * n \/ (2 * rest = q * n /\ (low \div q) % 2 = 1) THEN low + q ELSE low

\* the spacing of the floating-point numbers around x
Ulp(x) == UlpOf(x, 1)

\* round to nearest, ties to even
fl(x) ==
    LET q == Ulp(x)
        low == x - (x % q)
    IN  IF 2 * (x % q) > q \/ (2 * (x % q) = q /\ (low \div q) % 2 = 1) THEN low + q ELSE low

\* a leaf holds a training target; the targets are floating-point numbers, taken
\* large enough for the quotient to keep its full significand
LeafValues == {m * Pow2(SignificandBits) : m \in 1..(Pow2(SignificandBits) - 1)}

InitForest ==
    /\ caller = "direct"
    /\ cow = FALSE
    /\ input = <<>>
    /\ columns = {}
    /\ header = LowerCase(columns)
    /\ labels = header
    /\ custom = None
    /\ defaults = None
    /\ df = input
    /\ ai_mask = <<>>
    /\ todo = <<>>
    /\ fitted = {}
    /\ pc = "predict"
    /\ run = 1
    /\ \E trees \in [1..Estimators -> LeafValues], n_jobs \in 1..MaxWorkers :
         forest = [trees |-> trees, n_jobs |-> n_jobs, pending |-> 1..Estimators, y_hat |-> 0]

\* the trees in the hands of a thread: the first n_jobs of those not yet added
InFlight(f) == {k \in f.pending : Cardinality({j \in f.pending : j < k}) < f.n_jobs}

\* _accumulate_prediction: out[0] += prediction, under the lock
Accumulate ==
    /\ pc = "predict"
    /\ \E k \in InFlight(forest) :
         forest' = [forest EXCEPT !.pending = @ \ {k}, !.y_hat = fl(@ + forest.trees[k])]
    /\ UNCHANGED <<caller, cow, header, labels, columns, input, custom, defaults, df, ai_mask,
                   todo, fitted, pc, run>>

\* y_hat /= len(self.estimators_)
Average ==
    /\ pc = "predict"
    /\ forest.pending = {}
    /\ forest' = [forest EXCEPT !.y_hat = fdiv(@, Estimators)]
    /\ pc' = "predicted"
    /\ UNCHANGED <<caller, cow, header, labels, columns, input, custom, defaults, df,
                   ai_mask, todo, fitted, run>>

SpecForest == InitForest /\ [][Accumulate \/ Average]_vars

(***************************************************************************)
(* Vocabulary of the properties                                            *)
(***************************************************************************)
\* the input as the frame holds it once the columns are typed (main.py 108-110)
Typed == IF caller = "hybrid" THEN Coerce(input) ELSE input

\* df is the working copy of this call
Running == pc \notin {"resolve", "convert"}

\* ai_mask is the mask of this call
MaskLive == pc \notin {"resolve", "convert", "call"}

\* fill_missing_values has just returned its pair
FillReturned == (caller = "direct" /\ pc = "done") \/ (caller = "hybrid" /\ pc = "energy")

Cells == {<<r, col>> : r \in Rows(input), col \in columns}

\* ty is the typed input
WasAbsent(ty, r, col) == isnull(ty[r][col])

Filled(ty, r, col) == WasAbsent(ty, r, col) /\ notnull(df[r][col])

WhollyAbsent(ty, col) == Observed(ty, col) = {}

(***************************************************************************)
(* C1  Non-destructiveness: at every point of a call, a cell that is       *)
(* present in the (typed) input holds its input value in the working       *)
(* table, and the mask, once it exists, is false there.                    *)
(***************************************************************************)
NonDestructive ==
    LET ty == Typed
    IN  Running =>
            \A r \in Rows(input) : \A col \in columns :
                ~WasAbsent(ty, r, col) =>
                    /\ df[r][col] = ty[r][col]
                    /\ MaskLive => ~ai_mask[r][col]

\* a finished orchestrated call that filled a gap in a column holding an observed value
NonDestructiveWitness ==
    LET ty == Typed
    IN  /\ caller = "hybrid" /\ pc = "done" /\ run = 1
        /\ \E col \in columns : \E r1, r2 \in Rows(input) :
            /\ ~WasAbsent(ty, r1, col) /\ df[r1][col] = ty[r1][col]
            /\ Filled(ty, r2, col)

(***************************************************************************)
(* C2  Mask soundness.  As claimed, for the result of any imputation run:  *)
(* the mask is true exactly at the cells that were absent on input and are *)
(* present on output.                                                      *)
(***************************************************************************)
MaskSoundEveryRun ==
    LET ty == Typed
    IN  pc = "done" =>
            \A r \in Rows(input) : \A col \in columns : ai_mask[r][col] <=> Filled(ty, r, col)

(***************************************************************************)
(* C2 as amended: in the pair fill_missing_values returns, the mask is     *)
(* true exactly at the cells that were absent on input and are present in  *)
(* the returned table.                                                     *)
(***************************************************************************)
MaskSoundAtFillReturn ==
    LET ty == Typed
    IN  FillReturned =>
            \A r \in Rows(input) : \A col \in columns : ai_mask[r][col] <=> Filled(ty, r, col)

\* a returned pair with a marked cell, an unmarked observed cell and an unmarked gap left absent
MaskSoundWitness ==
    LET ty == Typed
    IN  /\ FillReturned
        /\ \E c1, c2, c3 \in Cells :
            /\ ai_mask[c1[1]][c1[2]] /\ Filled(ty, c1[1], c1[2])
            /\ ~WasAbsent(ty, c2[1], c2[2]) /\ ~ai_mask[c2[1]][c2[2]]
            /\ WasAbsent(ty, c3[1], c3[2]) /\ isnull(df[c3[1]][c3[2]]) /\ ~ai_mask[c3[1]][c3[2]]

(***************************************************************************)
(* C3  Completeness: when every field of the input has an observed value,  *)
(* the table an imputation run returns has no absent cell.                 *)
(***************************************************************************)
Complete ==
    LET ty == Typed
    IN  (pc = "done" /\ \A col \in columns : ~WhollyAbsent(ty, col))
            => \A r \in Rows(input) : \A col \in columns : notnull(df[r][col])

(***************************************************************************)
(* C4  As claimed: a field with no observed value in the input is absent   *)
(* in every row of the result of an imputation run, mask false.            *)
(***************************************************************************)
WhollyAbsentStaysAbsent ==
    LET ty == Typed
    IN  pc = "done" =>
            \A col \in columns : WhollyAbsent(ty, col) =>
                \A r \in Rows(input) : isnull(df[r][col]) /\ ~ai_mask[r][col]

(***************************************************************************)
(* C5  As claimed, derivation runs before the supervised stage and its     *)
(* median fallback: no cell that a derivation rule can fill is filled by   *)
(* a prediction or a median.                                               *)
(***************************************************************************)
RuleCanFill(t, r, col) ==
    \/ col = "energy_manufacturing"
    \/ col = "co2_manufacturing" /\ notnull(t[r]["energy_manufacturing"])
    \/ col = "transport_cost" /\ notnull(t[r]["transport_km"])

DerivationFirst ==
    [][(caller = "hybrid" /\ pc = "ai") =>
         \A r \in Rows(df) : \A col \in columns :
            (isnull(df[r][col]) /\ notnull(df'[r][col])) => ~RuleCanFill(df, r, col)]_vars

(***************************************************************************)
(* C5 as amended: an orchestrated call runs the supervised stage with its  *)
(* per-field median fallback first, then the three domain-default rules    *)
(* once each (energy, emissions, transport cost), then the last-resort     *)
(* numeric and categorical fills, in exactly that order, no stage repeated;*)
(* no step writes a cell that already holds a value.                       *)
(***************************************************************************)
StageOrder == <<"call", "ai", "energy", "co2", "cost", "last_num", "last_cat", "done">>

StageIndex(p) == CHOOSE k \in 1..Len(StageOrder) : StageOrder[k] = p

SupervisedFirst ==
    [][(caller = "hybrid" /\ pc \in SeqSet(StageOrder) /\ pc # "done") =>
         /\ \/ pc' = StageOrder[StageIndex(pc) + 1]
            \/ pc = "ai" /\ pc' = "ai" /\ todo # <<>>
            \/ pc = "energy" /\ pc' = "error"
         /\ (pc = "ai" /\ todo # <<>>) => pc' = "ai"
         /\ \A r \in Rows(df) : \A col \in columns : notnull(df[r][col]) => df'[r][col] = df[r][col]]_vars

\* an orchestrated call in which each of the three stages filled a cell: a median
\* or prediction (marked), the emissions rule (17.5 from 50), the last-resort mode
SupervisedFirstWitness ==
    LET ty == Typed
    IN  /\ caller = "hybrid" /\ pc = "done" /\ run = 1 /\ defaults.co2_kwh_man = 350
        /\ \E c \in Cells : ai_mask[c[1]][c[2]] /\ Filled(ty, c[1], c[2])
        /\ \E r \in Rows(input) :
            /\ Filled(ty, r, "co2_manufacturing") /\ ~ai_mask[r]["co2_manufacturing"]
            /\ df[r]["energy_manufacturing"] = Num(50 * U)
            /\ df[r]["co2_manufacturing"] = Num(17500000)
        /\ \E r \in Rows(input) : Filled(ty, r, "transport_mode")

(***************************************************************************)
(* C6  As claimed: in the result of an orchestrated call, every row whose  *)
(* co2_manufacturing was absent and whose energy_manufacturing was present *)
(* holds energy_manufacturing times the resolved factor, whatever the      *)
(* other rows hold.                                                        *)
(***************************************************************************)
IsDerivedCo2(ty, r) ==
    df[r]["co2_manufacturing"] =
        Num((ty[r]["energy_manufacturing"].num \div 1000) * defaults.co2_kwh_man)

Co2DerivedInEveryTable ==
    LET ty == Typed
    IN  (caller = "hybrid" /\ pc = "done") =>
            \A r \in Rows(input) :
                (WasAbsent(ty, r, "co2_manufacturing") /\ ~WasAbsent(ty, r, "energy_manufacturing"))
                    => IsDerivedCo2(ty, r)

(***************************************************************************)
(* C6 as amended: the same, for tables in which no row has an observed     *)
(* co2_manufacturing (the supervised stage, which runs first, then leaves  *)
(* the cell to the rule).                                                  *)
(***************************************************************************)
Co2DerivedWhenUnobserved ==
    LET ty == Typed
    IN  (caller = "hybrid" /\ pc = "done" /\ WhollyAbsent(ty, "co2_manufacturing")) =>
            \A r \in Rows(input) :
                (WasAbsent(ty, r, "co2_manufacturing") /\ ~WasAbsent(ty, r, "energy_manufacturing"))
                    => IsDerivedCo2(ty, r)

\* energy 50 and factor 0.35 gave 17.5
Co2DerivedWitness ==
    LET ty == Typed
    IN  /\ caller = "hybrid" /\ pc = "done" /\ WhollyAbsent(ty, "co2_manufacturing")
        /\ defaults.co2_kwh_man = 350
        /\ \E r \in Rows(input) :
            /\ ty[r]["energy_manufacturing"] = Num(50 * U)
            /\ df[r]["co2_manufacturing"] = Num(17500000)

(***************************************************************************)
(* C7  Idempotence: a table without absent cells comes back unchanged with *)
(* an all-false mask, and a call on the output of a call returns that      *)
(* output with an all-false mask.                                          *)
(***************************************************************************)
Idempotent ==
    LET ty == Typed
    IN  pc = "done" =>
            /\ (\A c \in Cells : ~WasAbsent(ty, c[1], c[2])) => (df = ty /\ ai_mask = AllFalse(df))
            /\ run > 1 => (df = input /\ ai_mask = AllFalse(df))

\* the second call has returned a table that the first call had to fill (17.5 is a derived value)
IdempotentWitness ==
    /\ run = 2 /\ pc = "done" /\ caller = "hybrid"
    /\ \E r \in Rows(input) : df[r]["co2_manufacturing"] = Num(17500000)

(***************************************************************************)
(* C8  Default resolution: the result has a value for each of the five     *)
(* parameters, the caller's where the caller gave one and the system       *)
(* constant (0.5, 0.35, 90.0, 200.0, 0.005) otherwise.                     *)
(***************************************************************************)
ResolvedName ==
    [co2_per_kwh_extraction |-> "co2_kwh_ext", co2_per_kwh_manufacturing |-> "co2_kwh_man",
     recycling_yield_default |-> "rec_yield", transport_cost_per_km_default |-> "transport_cost_km",
     avg_energy_extraction_mj |-> "avg_energy_ext"]

DocumentedConstant ==
    [co2_per_kwh_extraction |-> 500, co2_per_kwh_manufacturing |-> 350,
     recycling_yield_default |-> 90000, transport_cost_per_km_default |-> 5,
     avg_energy_extraction_mj |-> 200000]

DefaultsResolved ==
    pc = "convert" =>
        /\ DOMAIN defaults = {ResolvedName[p] : p \in Params}
        /\ \A p \in Params :
            defaults[ResolvedName[p]] =
                IF custom = None THEN DocumentedConstant[p]
                ELSE IF custom[p] = None THEN DocumentedConstant[p]
                ELSE custom[p].num

\* a partial parameter set, one value of which is 0.0
DefaultsResolvedWitness ==
    /\ pc = "convert" /\ custom # None
    /\ custom["co2_per_kwh_manufacturing"] = Num(0) /\ defaults.co2_kwh_man = 0
    /\ custom["recycling_yield_default"] = None /\ defaults.rec_yield = 90000

(***************************************************************************)
(* C9  The excluded field functional_unit_kg is never among the predictors *)
(* of a fitted model, and no step writes one of its absent cells.          *)
(***************************************************************************)
ExcludedFieldUntouched ==
    LET ty == Typed
    IN  /\ \A f \in fitted : "functional_unit_kg" \notin f.features
        /\ (Running /\ "functional_unit_kg" \in columns) =>
             \A r \in Rows(input) :
                WasAbsent(ty, r, "functional_unit_kg") => isnull(df[r]["functional_unit_kg"])

(***************************************************************************)
(* C10  A call on a table with zero rows ends with an error and returns    *)
(* nothing.                                                                *)
(***************************************************************************)
EmptyTableRaises == input = <<>> => pc # "done"

(***************************************************************************)
(* C11  Output shape, as claimed: the returned table has the rows of the   *)
(* input, row for row, and exactly the field names of the input.           *)
(***************************************************************************)
\* row r of the result carries every value row r of the typed input holds
RowsCorrespond ==
    LET ty == Typed
    IN  /\ Len(df) = Len(input)
        /\ \A r \in Rows(input) :
            /\ DOMAIN df[r] = DOMAIN input[r]
            /\ \A col \in columns : notnull(ty[r][col]) => df[r][col] = ty[r][col]

SameShape ==
    pc = "done" => (RowsCorrespond /\ DOMAIN labels = DOMAIN header /\ labels = header)

(***************************************************************************)
(* C11 as amended: the returned table has the rows of the input, row for   *)
(* row, and one field per field of the input; fill_missing_values returns  *)
(* the input's field names, run_hybrid_imputation the input's field names  *)
(* in lower case.                                                          *)
(***************************************************************************)
SameShapeLowerCased ==
    pc = "done" =>
        /\ RowsCorrespond
        /\ DOMAIN labels = DOMAIN header
        /\ \A col \in DOMAIN header :
            labels[col] = IF caller = "hybrid" /\ header[col] = "Weight_KG" THEN "weight_kg"
                          ELSE header[col]

\* an orchestrated call on a table labelled Weight_KG returned differing rows, one of them filled
SameShapeWitness ==
    LET ty == Typed
    IN  /\ caller = "hybrid" /\ pc = "done" /\ run = 1
        /\ Len(input) >= 2 /\ df[1] # df[2]
        /\ header["weight_kg"] = "Weight_KG" /\ labels["weight_kg"] = "weight_kg"
        /\ \E r \in Rows(input) : Filled(ty, r, "co2_manufacturing")

(***************************************************************************)
(* C12  Determinism: the prediction returned for a gap row is the same in  *)
(* every run on the same trees, whatever the number of workers: it is the  *)
(* one a single worker, adding the trees in order, arrives at.             *)
(***************************************************************************)
RECURSIVE SumInOrder(_, _)
SumInOrder(trees, k) == IF k = 0 THEN 0 ELSE fl(SumInOrder(trees, k - 1) + trees[k])

Deterministic ==
    pc = "predicted" => forest.y_hat = fdiv(SumInOrder(forest.trees, Estimators), Estimators)

(***************************************************************************)
(* C13  Insufficient-data threshold: when the loop reaches a numeric       *)
(* target with gaps, 1 to 4 observed rows mean that no model is fitted and *)
(* every gap cell receives the median of the observed values; 5 or more    *)
(* observed rows and a non-empty feature set mean that a model is fitted   *)
(* for the target.                                                         *)
(***************************************************************************)
\* m is the median of the observed numbers of a column: the middle one, or
\* half the sum of the two middle ones
IsMedian(t, col, m) ==
    LET vals == {t[r][col].num : r \in Observed(t, col)}
        n == Cardinality(Observed(t, col))
        Below(v) == Cardinality({r \in Observed(t, col) : t[r][col].num < v})
        Above(v) == Cardinality({r \in Observed(t, col) : t[r][col].num > v})
    IN  \E a, b \in vals :
            /\ a <= b /\ 2 * m = a + b
            /\ 2 * Below(a) < n /\ 2 * Above(b) < n
            /\ 2 * (Below(a) + Cardinality({r \in Observed(t, col) : t[r][col].num = a})) >= n
            /\ 2 * (Above(b) + Cardinality({r \in Observed(t, col) : t[r][col].num = b})) >= n

Trained(f, target) == \E m \in f : m.target = target

ThresholdRouting ==
    [][(pc = "ai" /\ todo # <<>> /\ HasNull(df, Head(todo))) =>
         LET target == Head(todo)
             n == Cardinality(Observed(df, target))
         IN  /\ n \in 1..4 =>
                 /\ fitted' = fitted
                 /\ \A r \in Rows(df) :
                      IF isnull(df[r][target])
                        THEN IsNum(df'[r][target]) /\ IsMedian(df, target, df'[r][target].num)
                        ELSE df'[r][target] = df[r][target]
             /\ (n >= 5 /\ feature_cols(df, target) # <<>>) =>
                 /\ ~Trained(fitted, target)
                 /\ Trained(fitted', target)]_vars

\* a returned pair in which transport_cost, observed in 1 to 4 rows, carries its
\* median in a gap and was not trained on, while another target was trained on
ThresholdRoutingWitness ==
    LET ty == Typed
        n == Cardinality(Observed(ty, "transport_cost"))
    IN  /\ FillReturned /\ run = 1
        /\ n \in 1..4
        /\ ~Trained(fitted, "transport_cost")
        /\ \E r \in Rows(input) :
            /\ WasAbsent(ty, r, "transport_cost") /\ ai_mask[r]["transport_cost"]
            /\ IsMedian(ty, "transport_cost", df[r]["transport_cost"].num)
        /\ \E other \in columns : Trained(fitted, other)

(***************************************************************************)
(* C14  Training failure is absorbed per field: when model.fit raises for  *)
(* a target, the call does not end in an error, every gap cell of the      *)
(* target receives the median of its observed values and is marked, no     *)
(* other cell changes, and the loop goes on with the remaining targets.    *)
(***************************************************************************)
FailureAbsorbed ==
    [][(/\ pc = "ai" /\ todo # <<>> /\ HasNull(df, Head(todo))
        /\ Cardinality(Observed(df, Head(todo))) >= 5
        /\ feature_cols(df, Head(todo)) # <<>>
        /\ FitRaises(df, Head(todo))) =>
         LET target == Head(todo)
         IN  /\ pc' = "ai"
             /\ todo' = Tail(todo)
             /\ \A r \in Rows(df) : \A col \in columns :
                  IF col = target /\ isnull(df[r][col])
                    THEN /\ IsNum(df'[r][col]) /\ IsMedian(df, col, df'[r][col].num)
                         /\ ai_mask'[r][col]
                    ELSE df'[r][col] = df[r][col] /\ ai_mask'[r][col] = ai_mask[r][col]]_vars

\* a returned pair: the fit for co2_manufacturing raised, its gap carries the
\* median and is marked, and the later target transport_cost was filled too
FailureAbsorbedWitness ==
    LET ty == Typed
    IN  /\ caller = "direct" /\ pc = "done" /\ run = 1
        /\ FitRaises(ty, "co2_manufacturing") /\ Trained(fitted, "co2_manufacturing")
        /\ \E r \in Rows(input) :
            /\ WasAbsent(ty, r, "co2_manufacturing") /\ ai_mask[r]["co2_manufacturing"]
            /\ IsMedian(ty, "co2_manufacturing", df[r]["co2_manufacturing"].num)
            /\ Filled(ty, r, "transport_cost") /\ ai_mask[r]["transport_cost"]

(***************************************************************************)
(* C15  Categorical fallback: in the returned table every absent cell of a *)
(* categorical field (transport_mode, eol_method) that has an observed     *)
(* value holds a most frequent observed value of the field, and the        *)
(* observed cells hold their values.                                       *)
(***************************************************************************)
\* v is an observed string of the column that no other string outnumbers
IsMostFrequent(t, col, v) ==
    LET Times_(x) == Cardinality({r \in Rows(t) : t[r][col] = x})
    IN  /\ IsStr(v) /\ Times_(v) > 0
        /\ \A r \in Observed(t, col) : Times_(t[r][col]) <= Times_(v)

ModeFilled ==
    LET ty == Typed
    IN  pc = "done" =>
            \A col \in columns \cap TextFields :
                Observed(ty, col) # {} =>
                    \A r \in Rows(input) :
                        IF WasAbsent(ty, r, col) THEN IsMostFrequent(ty, col, df[r][col])
                        ELSE df[r][col] = ty[r][col]

====
